---- MODULE Spec2Model ----
(***************************************************************************)
(* deploy_metrics_report.py: the deploy cycle-time report.  The script     *)
(* walks the tracker's paginated feed of production deploys, looks up the  *)
(* first production deploy and the first staging deploy of every           *)
(* qualifying commit, resolves the pull requests folded into the deploy    *)
(* and writes one CSV row per qualifying commit.                           *)
(*                                                                         *)
(* The program is one thread of control; pc is the source line it stands   *)
(* at.  A step that calls an external API draws the response from a small  *)
(* set.  Timestamps are seconds on an integer axis; sha values are short   *)
(* strings and "" is the empty sha.                                        *)
(***************************************************************************)
EXTENDS Integers, Sequences, FiniteSets, TLC

VARIABLES
    pc,                          \* source line the program stands at
    exc,                         \* exception caught at line 210, if any
    from_date, to_date,          \* kwargs["from_date"], kwargs["to_date"]
    header, rows,                \* the CSV file: header row, data rows
    first_production_deploy,     \* main, line 198
    deploy_end_time,             \* main, line 199
    pr_production_cycle_time,    \* main, line 201
    staging_production_cycle_time, \* main, line 202
    deploys, page, commit_cache, \* generator frame, lines 86-88
    idx, deploy,                 \* generator frame, the for loop of line 90
    git_sha, production,         \* get_first_deploy frame, its arguments
    gfd_deploys, gfd_page,       \* get_first_deploy frame: deploys, page
    first_deploy,                \* get_first_deploy frame, line 76
    caller,                      \* who called get_first_deploy
    received,                    \* history: pages each caller's walk received
    total, count,                \* pr_production_time frame
    commits, ci, gen_resume,     \* get_pull_requests_number generator frame
    pull_request_number,         \* pr_production_time frame, line 160
    fetched,                     \* history: pull requests fetched at line 161
    first_staging_deploy,        \* staging_production_time frame
    response,                    \* history: the last response of an API
    requested                    \* history: page numbers each walk asked for

ctlVars  == <<pc, exc>>
kwVars   == <<from_date, to_date>>
mainVars == <<header, rows, first_production_deploy, deploy_end_time,
              pr_production_cycle_time, staging_production_cycle_time>>
genVars  == <<deploys, page, commit_cache, idx, deploy>>
gfdVars  == <<git_sha, production, gfd_deploys, gfd_page, first_deploy,
              caller, received>>
prVars   == <<total, count, commits, ci, gen_resume, pull_request_number,
              fetched>>
stgVars  == <<first_staging_deploy>>
histVars == <<response, requested>>
vars == <<ctlVars, kwVars, mainVars, genVars, gfdVars, prVars, stgVars,
          histVars>>

----------------------------------------------------------------------------
(* Bounds of the model.                                                    *)

MaxDate == 2          \* timestamps of deploys are 0..MaxDate
MaxPages == 2         \* feed pages that may be non-empty
MaxPageLen == 2       \* deploys on one feed page
MainSearchPages == 1  \* Spec: search pages that may be non-empty
MainSearchLen == 1    \* Spec: deploys on one search page
MainSearchDate == 1   \* Spec: created_at of a search result is 0..this
MainMsgs == 1         \* Spec: commits in one compare response
MainMsgKinds == 2     \* Spec: kinds of commit message, of MessageKinds
MainPrTime == 0       \* Spec: created_at of a pull request is 0..this
CalcSearchPages == 2  \* SpecStaging: search pages that may be non-empty
CalcSearchLen == 2    \* SpecStaging: deploys on one search page
CalcSearchDate == 1   \* SpecPr, SpecStaging: created_at of a search result
CalcMsgs == 2         \* SpecPr: commits in one compare response
CalcMsgKinds == 5     \* SpecPr: kinds of commit message, of MessageKinds
CalcPrTime == 3       \* SpecPr: created_at of a pull request is 0..this

----------------------------------------------------------------------------
(* Values.                                                                 *)

None == [none |-> TRUE]
NoExc == [kind |-> "none"]
Zero == [num |-> 0, den |-> 1]

Commits == {"a", "b"}
PrevCommits == {""} \cup Commits
Dates == 0 .. MaxDate
Durations == {1}      \* updated_at - created_at of a deploy

CommitNo(c) == CASE c = "" -> 0 [] c = "a" -> 1 [] c = "b" -> 2

\* A deploy record of the tracker; the id is distinct for distinct deploys.
Deploy(c, p, t, u, prod) ==
    [id |-> 10000 * (IF prod THEN 1 ELSE 2) + 1000 * CommitNo(c)
              + 100 * CommitNo(p) + 10 * t + u,
     commit |-> c, previous_commit |-> p,
     created_at |-> t, updated_at |-> u, production |-> prod]

\* Deploys the production feed (git_sha "", production true) may hold.
FeedDeploys ==
    {Deploy(c, p, t, t + d, TRUE) :
        c \in Commits, p \in PrevCommits, t \in Dates, d \in Durations}

OtherCommit(c) == IF c = "a" THEN "b" ELSE "a"

\* Deploys a search for git_sha sha in the given environment may return.
SearchDeploys(sha, prod, maxDate) ==
    {Deploy(sha, OtherCommit(sha), t, t + d, prod) :
        t \in 0 .. maxDate, d \in Durations}

Pages(S, maxLen) == UNION {[1 .. n -> S] : n \in 0 .. maxLen}

\* The n-th page of a listing: past maxPages the listing has ended.
PagesAt(n, S, maxPages, maxLen) ==
    IF n <= maxPages THEN Pages(S, maxLen) ELSE {<<>>}

Last(s) == s[Len(s)]

----------------------------------------------------------------------------
(* The two API clients.                                                    *)

\* Lines 57-58 and 125-126: a response is the status code and the decoded
\* body, as received from one of the two APIs.
Response(api, status_code, json_output) ==
    [api |-> api, status |-> status_code, payload |-> json_output]

NoResponse == [api |-> "none"]

\* The words of the message of the source host's rate limit response.
RateLimitMessage == <<"API", "rate", "limit", "exceeded", "for", "user">>

\* Error responses of the tracker.
SamsonErrorStatuses == {400, 401, 403}
SamsonErrorPayloads == {[error |-> "body"], [message |-> RateLimitMessage]}

\* Samson._api, lines 57-65: the outcome of a response.
Samson_api(status_code, json_output) ==
    IF status_code = 401
    THEN [raise |-> "UnauthorizedException",
          status |-> status_code, data |-> json_output]
    ELSE IF status_code >= 400
    THEN [raise |-> "UnexpectedException",
          status |-> status_code, data |-> json_output]
    ELSE [raise |-> "none", value |-> json_output]

\* Samson.get_deploys_search, lines 70-72: the pages the tracker may answer
\* with to a query (an empty git_sha does not filter by commit).
get_deploys_search(sha, prod, n, maxPages, maxLen, maxDate) ==
    PagesAt(n,
            IF sha = "" THEN {d \in FeedDeploys : d.production = prod}
                        ELSE SearchDeploys(sha, prod, maxDate),
            maxPages, maxLen)

\* Error responses of the source host; a body is a JSON object and need
\* not have a "message".
GithubErrorStatuses == {400, 401, 403}
GithubErrorPayloads ==
    {[message |-> RateLimitMessage],
     [message |-> <<"Forbidden">>],
     [documentation_url |-> "url"]}

\* str.lower on one word.
Lower(w) == CASE w = "API" -> "api"
              [] w = "Forbidden" -> "forbidden"
              [] w = "Not" -> "not"
              [] w = "Found" -> "found"
              [] OTHER -> w

StartsWith(s, prefix) ==
    /\ Len(s) >= Len(prefix)
    /\ \A i \in 1 .. Len(prefix) : s[i] = prefix[i]

\* Line 128, json_output["message"].lower().startswith(...); subscripting
\* a body without the key raises KeyError.
HasMessage(json_output) == "message" \in DOMAIN json_output

IsRateLimit(json_output) ==
    StartsWith([i \in 1 .. Len(json_output.message) |->
                   Lower(json_output.message[i])],
               <<"api", "rate", "limit", "exceeded">>)

\* Github._api, lines 125-133: the outcome of a response.  The message is
\* read only when the status is 403.
Github_api(status_code, json_output) ==
    IF status_code = 403 /\ ~ HasMessage(json_output)
    THEN [kind |-> "KeyError"]
    ELSE IF status_code = 403 /\ IsRateLimit(json_output)
    THEN [raise |-> "RateLimitExceededException",
          status |-> status_code, data |-> json_output]
    ELSE IF status_code >= 400
    THEN [raise |-> "UnexpectedException",
          status |-> status_code, data |-> json_output]
    ELSE [raise |-> "none", value |-> json_output]

----------------------------------------------------------------------------
(* Commit messages and the two patterns.  A message is a sequence of       *)
(* tokens: "merge" is the text "Merge pull request #", "num" a maximal run *)
(* of digits (n its value), "open" the text "(#", "close" the text ")",    *)
(* "nl" a line break and "text" any other text without a line break.       *)

Tok(k, n) == [k |-> k, n |-> n]
NoMatch == -1

MergeMsg(n)   == <<Tok("merge", 0), Tok("num", n), Tok("text", 0)>>
SquashMsg(n)  == <<Tok("text", 0), Tok("open", 0), Tok("num", n),
                   Tok("close", 0)>>
PlainMsg      == <<Tok("text", 0)>>
BothMsg(n, m) == <<Tok("merge", 0), Tok("num", n), Tok("text", 0),
                   Tok("open", 0), Tok("num", m), Tok("close", 0)>>
BodyMsg(n)    == <<Tok("text", 0), Tok("nl", 0), Tok("open", 0),
                   Tok("num", n), Tok("close", 0)>>

MessageKinds ==
    <<MergeMsg(1), PlainMsg, SquashMsg(2), BothMsg(1, 2), BodyMsg(2)>>

Min(a, b) == IF a <= b THEN a ELSE b

Messages(kinds) ==
    {MessageKinds[i] : i \in 1 .. Min(kinds, Len(MessageKinds))}

Max(S) == CHOOSE x \in S : \A y \in S : y <= x

\* PR_REGEX.match, lines 114 and 148: anchored at the start of the message.
PR_REGEX(message) ==
    IF /\ Len(message) >= 2
       /\ message[1].k = "merge"
       /\ message[2].k = "num"
    THEN message[2].n ELSE NoMatch

PR_SQUASH_REGEX_elif(message) ==
    LET at == {i \in 1 .. Len(message) - 2 :
                  /\ message[i].k = "open"
                  /\ message[i + 1].k = "num"
                  /\ message[i + 2].k = "close"
                  /\ \A j \in 1 .. i - 1 : message[j].k # "nl"}
    IN  IF at = {} \/ PR_REGEX(message) # NoMatch
        THEN NoMatch ELSE message[Max(at) + 1].n

\* PR_SQUASH_REGEX.match, lines 115 and 152: ".*" is greedy and does not
\* cross a line break, so the last "(#N)" of the first line is captured.
PR_SQUASH_REGEX(message) ==
    LET at == {i \in 1 .. Len(message) - 2 :
                  /\ message[i].k = "open"
                  /\ message[i + 1].k = "num"
                  /\ message[i + 2].k = "close"
                  /\ \A j \in 1 .. i - 1 : message[j].k # "nl"}
    IN  IF at = {} THEN NoMatch ELSE message[Max(at) + 1].n

\* The commits of a compare response, line 144.
CompareCommits(maxMsgs, kinds) == Pages(Messages(kinds), maxMsgs)

----------------------------------------------------------------------------
(* Expressions of the program.                                             *)

\* Lines 91-93: the fields the loop body reads from the current deploy.
created_at == deploy.created_at
commit == deploy.commit
previous_commit == deploy.previous_commit

BeforeFromDate_never(created, from) == FALSE

\* Line 95: the deploy was created before the range.
BeforeFromDate(created, from) == created < from

\* Line 98: the deploy was created after the range.
AfterToDate(created, to) == to < created

SkipCommit_noSelf(cache, c, p) == c \in cache \/ p = ""

\* Line 101: the deploy is not processed.
SkipCommit(cache, c, p) == c \in cache \/ p = "" \/ p = c

CacheInsert_dropped(cache, c) == cache

\* Line 105: commit_cache[commit] = True.
CacheInsert(cache, c) == cache \cup {c}

LastCandidate_first(ds) == ds[1]

LastCandidate_keepFirstPage(ds) ==
    IF first_deploy = None THEN ds[Len(ds)] ELSE first_deploy

\* Line 79: deploys[-1].
LastCandidate(ds) == ds[Len(ds)]

DeployEndTime_created(d) == d.created_at

\* Line 199: the deploy end time is the first production deploy's updated_at.
DeployEndTime(d) == d.updated_at

Elapsed_clamped(end, created) == IF end > created THEN end - created ELSE 0

\* Line 163: (deploy_end_time - pull_request_created_at).total_seconds().
Elapsed(end, created) == end - created

\* Lines 166-169: total / count as a fraction, or 0.
Mean(t, n) == IF n > 0 THEN [num |-> t, den |-> n] ELSE Zero

StagingElapsed_created(end, d) ==
    IF d # None THEN end - d.created_at ELSE 0

\* Lines 174-178: the staging to production time.
StagingElapsed(end, d) == IF d # None THEN end - d.updated_at ELSE 0

\* Line 195.
HeaderRow == <<"Deploy ID", "Commit", "PR - Production Cycle Time",
               "Staging - Production Cycle Time">>

\* Line 204: the row of one deploy.
Row(d, c, pr, stg) == [id |-> d.id, commit |-> c, pr |-> pr, staging |-> stg]

NoReceived == [range |-> <<>>, staging |-> <<>>]
NoRequested == [feed |-> <<>>, range |-> <<>>, staging |-> <<>>]

\* Lines 74-83 as a function of the pages the tracker answers with (a page
\* past the end of the sequence is empty).
RECURSIVE WalkPages(_, _, _)
WalkPages(pages, n, cand) ==
    IF n > Len(pages) \/ pages[n] = <<>>
    THEN cand
    ELSE WalkPages(pages, n + 1, LastCandidate(pages[n]))

get_first_deploy(pages) == WalkPages(pages, 1, None)

\* Lines 143-154 as a function of the commits of the compare response: the
\* numbers the generator yields, in order.
RECURSIVE get_pull_requests_number(_)
get_pull_requests_number(cs) ==
    IF cs = <<>> THEN <<>>
    ELSE (IF PR_REGEX(Head(cs)) # NoMatch
          THEN <<PR_REGEX(Head(cs))>> ELSE <<>>)
         \o (IF PR_SQUASH_REGEX(Head(cs)) # NoMatch
             THEN <<PR_SQUASH_REGEX(Head(cs))>> ELSE <<>>)
         \o get_pull_requests_number(Tail(cs))

----------------------------------------------------------------------------
(* The initial state: main() is entered with the kwargs of lines 259-265.  *)

BlankGfd ==
    /\ git_sha = "" /\ production = TRUE
    /\ gfd_deploys = <<>> /\ gfd_page = 0
    /\ first_deploy = None /\ caller = "none"

BlankPr ==
    /\ total = 0 /\ count = 0
    /\ commits = <<>> /\ gen_resume = "none"
    /\ pull_request_number = 0
    /\ fetched = <<>>

Init ==
    /\ pc = "L184" /\ exc = NoExc
    /\ from_date = 1 /\ to_date = MaxDate - 1
    /\ header = <<>> /\ rows = <<>>
    /\ deploys = <<>> /\ page = 0 /\ idx = 0
    /\ commit_cache = {} /\ deploy = None
    /\ first_production_deploy = None
    /\ deploy_end_time = 0
    /\ pr_production_cycle_time = Zero
    /\ staging_production_cycle_time = 0
    /\ received = NoReceived
    /\ BlankGfd
    /\ BlankPr /\ ci = 0
    /\ first_staging_deploy = None
    /\ response = NoResponse
    /\ requested = NoRequested

----------------------------------------------------------------------------
(* Exceptions: main catches every exception at line 210 and prints it.     *)

Raise_perDeploy(e) ==
    /\ pc' = "L205"
    /\ exc' = e
    /\ UNCHANGED <<kwVars, mainVars, genVars, gfdVars, prVars, stgVars>>

Raise(e) ==
    /\ pc' = "L211"
    /\ exc' = e
    /\ UNCHANGED <<kwVars, mainVars, genVars, gfdVars, prVars, stgVars>>

\* An error response of the tracker to a request that leaves the page
\* numbers asked for as rq.
SamsonFails(rq) ==
    \E s \in SamsonErrorStatuses, p \in SamsonErrorPayloads :
        /\ Raise(Samson_api(s, p))
        /\ response' = Response("samson", s, p)
        /\ requested' = rq

\* An error response of the source host.
GithubFails ==
    \E s \in GithubErrorStatuses, p \in GithubErrorPayloads :
        /\ Raise(Github_api(s, p))
        /\ response' = Response("github", s, p)
        /\ requested' = requested

\* datetime.strptime raises ValueError on a text that is not in the format.
\* The text is the API's and every timestamp is parsed once, so whether it
\* is well formed is decided at the parse.
ParseFails ==
    /\ Raise([kind |-> "ValueError"])
    /\ UNCHANGED histVars

----------------------------------------------------------------------------
(* main, lines 183-196: the project is fetched, the file opened and the    *)
(* header written.                                                         *)

GetProject ==
    /\ pc = "L184"
    /\ \/ LET r == Samson_api(200, [project |-> "repo"])
          IN  /\ r.raise = "none"
              /\ response' = Response("samson", 200, r.value)
              /\ header' = HeaderRow
              /\ pc' = "L86"
              /\ UNCHANGED <<exc, requested, kwVars, rows,
                             first_production_deploy, deploy_end_time,
                             pr_production_cycle_time,
                             staging_production_cycle_time, genVars, gfdVars,
                             prVars, stgVars>>
       \/ SamsonFails(requested)

----------------------------------------------------------------------------
(* Samson.get_first_production_deploys_within_date_range, lines 85-109.    *)

\* Lines 86-88: the first page of the feed.
FeedFirst ==
    /\ pc = "L86"
    /\ LET rq == [requested EXCEPT !.feed = <<1>>]
       IN  \/ \E p \in get_deploys_search("", TRUE, 1, MaxPages, MaxPageLen,
                                          MaxDate) :
                LET r == Samson_api(200, [deploys |-> p])
                IN  /\ r.raise = "none"
                    /\ response' = Response("samson", 200, r.value)
                    /\ requested' = rq
                    /\ deploys' = r.value.deploys
                    /\ page' = 1
                    /\ commit_cache' = {}
                    /\ pc' = "L89"
                    /\ UNCHANGED <<exc, kwVars, mainVars, idx, deploy,
                                   gfdVars, prVars, stgVars>>
           \/ SamsonFails(rq)

\* Line 89: while deploys.  An empty page ends the generator, and with it
\* the loop of line 198.
WhileDeploys ==
    /\ pc = "L89"
    /\ IF deploys # <<>>
       THEN /\ idx' = 0 /\ pc' = "L90"
       ELSE /\ idx' = idx /\ pc' = "L207"
    /\ UNCHANGED <<exc, histVars, kwVars, mainVars, deploys, page,
                   commit_cache, deploy, gfdVars, prVars, stgVars>>

\* Lines 90-93: the next deploy of the page, whose created_at is parsed,
\* or the end of the page.
ForDeploy ==
    /\ pc = "L90"
    /\ IF idx < Len(deploys)
       THEN /\ idx' = idx + 1
            /\ deploy' = deploys[idx + 1]
            /\ \/ pc' = "L95" /\ exc' = exc
               \/ pc' = "L211" /\ exc' = [kind |-> "ValueError"]
       ELSE /\ idx' = idx /\ deploy' = deploy
            /\ pc' = "L108" /\ exc' = exc
    /\ UNCHANGED <<histVars, kwVars, mainVars, deploys, page, commit_cache,
                   gfdVars, prVars, stgVars>>

\* Lines 95-96: a deploy created before from_date breaks out of the for
\* loop, to line 108.
CheckFromDate ==
    /\ pc = "L95"
    /\ pc' = IF BeforeFromDate(created_at, from_date) THEN "L108" ELSE "L98"
    /\ UNCHANGED <<exc, histVars, kwVars, mainVars, genVars, gfdVars, prVars,
                   stgVars>>

\* Lines 98-99: while to_date < created_at: continue.  The continue binds
\* to this while loop: the condition is tested again, with nothing changed.
WhileToDate ==
    /\ pc = "L98"
    /\ pc' = IF AfterToDate(created_at, to_date) THEN "L98" ELSE "L101"
    /\ UNCHANGED <<exc, histVars, kwVars, mainVars, genVars, gfdVars, prVars,
                   stgVars>>

CheckCache_marks ==
    /\ pc = "L101"
    /\ IF SkipCommit(commit_cache, commit, previous_commit)
       THEN /\ commit_cache' = CacheInsert(commit_cache, commit)
            /\ pc' = "L90"
       ELSE /\ commit_cache' = commit_cache
            /\ pc' = "L104"
    /\ UNCHANGED <<exc, histVars, kwVars, mainVars, deploys, page, idx,
                   deploy, gfdVars, prVars, stgVars>>

\* Lines 101-102: a cached commit, an empty or a self-identical
\* previous_commit continue with the next deploy.
CheckCache ==
    /\ pc = "L101"
    /\ pc' = IF SkipCommit(commit_cache, commit, previous_commit)
             THEN "L90" ELSE "L104"
    /\ UNCHANGED <<exc, histVars, kwVars, mainVars, genVars, gfdVars, prVars,
                   stgVars>>

\* Line 104: the call self.get_first_deploy(commit).
CallFirstProduction ==
    /\ pc = "L104"
    /\ git_sha' = commit /\ production' = TRUE /\ caller' = "range"
    /\ pc' = "L75"
    /\ UNCHANGED <<exc, histVars, kwVars, mainVars, genVars, gfd_deploys,
                   gfd_page, first_deploy, received, prVars, stgVars>>

Yield_eager ==
    /\ pc = "L105"
    /\ commit_cache' = CacheInsert(commit_cache, commit)
    /\ pc' = "L90"
    /\ UNCHANGED <<exc, histVars, kwVars, mainVars, deploys, page, idx,
                   deploy, gfdVars, prVars, stgVars>>

\* Lines 105-106: the commit is cached and the triple yielded to main.
Yield ==
    /\ pc = "L105"
    /\ commit_cache' = CacheInsert(commit_cache, commit)
    /\ pc' = "L199"
    /\ UNCHANGED <<exc, histVars, kwVars, mainVars, deploys, page, idx,
                   deploy, gfdVars, prVars, stgVars>>

NextPage_samePage ==
    /\ pc = "L108"
    /\ LET rq == [requested EXCEPT !.feed = Append(@, page)]
       IN  \/ \E p \in get_deploys_search("", TRUE, page, MaxPages,
                                          MaxPageLen, MaxDate) :
                /\ response' = Response("samson", 200, [deploys |-> p])
                /\ requested' = rq
                /\ page' = page
                /\ deploys' = p
                /\ idx' = 0 /\ deploy' = None
                /\ pc' = "L89"
                /\ UNCHANGED <<exc, kwVars, mainVars, commit_cache, gfdVars,
                               prVars, stgVars>>
           \/ SamsonFails(rq)

\* Lines 108-109: the next page of the feed.  idx and deploy are dead until
\* line 90 binds them again.
NextPage ==
    /\ pc = "L108"
    /\ LET rq == [requested EXCEPT !.feed = Append(@, page + 1)]
       IN  \/ \E p \in get_deploys_search("", TRUE, page + 1, MaxPages,
                                          MaxPageLen, MaxDate) :
                LET r == Samson_api(200, [deploys |-> p])
                IN  /\ r.raise = "none"
                    /\ response' = Response("samson", 200, r.value)
                    /\ requested' = rq
                    /\ page' = page + 1
                    /\ deploys' = r.value.deploys
                    /\ idx' = 0 /\ deploy' = None
                    /\ pc' = "L89"
                    /\ UNCHANGED <<exc, kwVars, mainVars, commit_cache,
                                   gfdVars, prVars, stgVars>>
           \/ SamsonFails(rq)

----------------------------------------------------------------------------
(* Samson.get_first_deploy, lines 74-83.  The bounds on what the tracker   *)
(* answers are parameters: each specification gives its own.               *)

\* Lines 75-77: page 1 of the search.
GfdFirst(maxPages, maxLen, maxDate) ==
    /\ pc = "L75"
    /\ LET rq == [requested EXCEPT ![caller] = <<1>>]
       IN  \/ \E p \in get_deploys_search(git_sha, production, 1, maxPages,
                                          maxLen, maxDate) :
                LET r == Samson_api(200, [deploys |-> p])
                IN  /\ r.raise = "none"
                    /\ response' = Response("samson", 200, r.value)
                    /\ requested' = rq
                    /\ gfd_deploys' = r.value.deploys
                    /\ first_deploy' = None
                    /\ gfd_page' = 1
                    /\ received' = [received EXCEPT ![caller] = <<p>>]
                    /\ pc' = "L78"
                    /\ UNCHANGED <<exc, kwVars, mainVars, genVars, git_sha,
                                   production, caller, prVars, stgVars>>
           \/ SamsonFails(rq)

GfdWhile_ceiling(maxPages, maxLen, maxDate) ==
    /\ pc = "L78"
    /\ IF gfd_deploys # <<>> /\ gfd_page < 2
       THEN LET rq == [requested EXCEPT ![caller] = Append(@, gfd_page + 1)]
            IN  \/ \E p \in get_deploys_search(git_sha, production,
                                               gfd_page + 1, maxPages,
                                               maxLen, maxDate) :
                     /\ response' = Response("samson", 200, [deploys |-> p])
                     /\ requested' = rq
                     /\ first_deploy' = LastCandidate(gfd_deploys)
                     /\ gfd_page' = gfd_page + 1
                     /\ gfd_deploys' = p
                     /\ received' =
                            [received EXCEPT ![caller] = Append(@, p)]
                     /\ pc' = "L78"
                     /\ UNCHANGED <<exc, kwVars, mainVars, genVars,
                                    git_sha, production, caller, prVars,
                                    stgVars>>
                \/ SamsonFails(rq)
       ELSE /\ pc' = "L83"
            /\ UNCHANGED <<exc, histVars, kwVars, mainVars, genVars, gfdVars,
                           prVars, stgVars>>

\* Lines 78-81: a non-empty page gives the candidate and the next page is
\* asked for; an empty page ends the loop.
GfdWhile(maxPages, maxLen, maxDate) ==
    /\ pc = "L78"
    /\ IF gfd_deploys # <<>>
       THEN LET rq == [requested EXCEPT ![caller] = Append(@, gfd_page + 1)]
            IN  \/ \E p \in get_deploys_search(git_sha, production,
                                               gfd_page + 1, maxPages,
                                               maxLen, maxDate) :
                     LET r == Samson_api(200, [deploys |-> p])
                     IN  /\ r.raise = "none"
                         /\ response' = Response("samson", 200, r.value)
                         /\ requested' = rq
                         /\ first_deploy' = LastCandidate(gfd_deploys)
                         /\ gfd_page' = gfd_page + 1
                         /\ gfd_deploys' = r.value.deploys
                         /\ received' =
                                [received EXCEPT ![caller] = Append(@, p)]
                         /\ pc' = "L78"
                         /\ UNCHANGED <<exc, kwVars, mainVars, genVars,
                                        git_sha, production, caller, prVars,
                                        stgVars>>
                \/ SamsonFails(rq)
       ELSE /\ pc' = "L83"
            /\ UNCHANGED <<exc, histVars, kwVars, mainVars, genVars, gfdVars,
                           prVars, stgVars>>

\* Line 83: first_deploy is returned, to line 104 or to line 173, and the
\* frame is gone.
GfdReturn ==
    /\ pc = "L83"
    /\ IF caller = "range"
       THEN /\ first_production_deploy' = first_deploy
            /\ first_staging_deploy' = first_staging_deploy
            /\ pc' = "L105"
       ELSE /\ first_staging_deploy' = first_deploy
            /\ first_production_deploy' = first_production_deploy
            /\ pc' = "L174"
    /\ git_sha' = "" /\ production' = TRUE
    /\ gfd_deploys' = <<>> /\ gfd_page' = 0
    /\ first_deploy' = None /\ caller' = "none"
    /\ UNCHANGED <<exc, histVars, kwVars, header, rows, deploy_end_time,
                   pr_production_cycle_time, staging_production_cycle_time,
                   genVars, received, prVars>>

----------------------------------------------------------------------------
(* main, lines 198-205: the body of the loop over the yielded triples.     *)

ParseEndTime_skipsNone ==
    /\ pc = "L199"
    /\ IF first_production_deploy = None
       THEN /\ pc' = "L205"
            /\ UNCHANGED <<exc, histVars, kwVars, mainVars, genVars, gfdVars,
                           prVars, stgVars>>
       ELSE /\ deploy_end_time' = DeployEndTime(first_production_deploy)
            /\ total' = 0 /\ count' = 0
            /\ pc' = "L144"
            /\ UNCHANGED <<exc, histVars, kwVars, header, rows,
                           first_production_deploy,
                           pr_production_cycle_time,
                           staging_production_cycle_time, genVars, gfdVars,
                           commits, ci, gen_resume, pull_request_number,
                           fetched, stgVars>>

\* Line 199: the deploy end time; subscripting None raises TypeError and a
\* malformed updated_at ValueError.  Line 201 then enters pr_production_time
\* (lines 158-159).
ParseEndTime ==
    /\ pc = "L199"
    /\ IF first_production_deploy = None
       THEN Raise([kind |-> "TypeError"]) /\ UNCHANGED histVars
       ELSE \/ /\ deploy_end_time' = DeployEndTime(first_production_deploy)
               /\ total' = 0 /\ count' = 0
               /\ pc' = "L144"
               /\ UNCHANGED <<exc, histVars, kwVars, header, rows,
                              first_production_deploy,
                              pr_production_cycle_time,
                              staging_production_cycle_time, genVars, gfdVars,
                              commits, ci, gen_resume, pull_request_number,
                              fetched, stgVars>>
            \/ ParseFails

\* Line 144, run by the first next() of line 160: the compare call.
Compare(maxMsgs, kinds) ==
    /\ pc = "L144"
    /\ \/ \E cs \in CompareCommits(maxMsgs, kinds) :
            LET r == Github_api(200, [commits |-> cs])
            IN  /\ r.raise = "none"
                /\ response' = Response("github", 200, r.value)
                /\ commits' = r.value.commits
                /\ ci' = 1
                /\ pc' = "L146"
                /\ UNCHANGED <<exc, requested, kwVars, mainVars, genVars,
                               gfdVars, total, count, gen_resume,
                               pull_request_number, fetched, stgVars>>
       \/ GithubFails

\* Lines 145-150: the next commit's message against PR_REGEX; with no
\* commit left the generator ends and line 166 is reached.
GenTestA ==
    /\ pc = "L146"
    /\ IF ci > Len(commits)
       THEN /\ pc' = "L166"
            /\ UNCHANGED <<gen_resume, pull_request_number>>
       ELSE IF PR_REGEX(commits[ci]) # NoMatch
       THEN /\ pull_request_number' = PR_REGEX(commits[ci])
            /\ gen_resume' = "L152"
            /\ pc' = "L161"
       ELSE /\ pc' = "L152"
            /\ UNCHANGED <<gen_resume, pull_request_number>>
    /\ UNCHANGED <<exc, histVars, kwVars, mainVars, genVars, gfdVars, total,
                   count, commits, ci, fetched, stgVars>>

\* Lines 152-154: the same message against PR_SQUASH_REGEX.
GenTestB ==
    /\ pc = "L152"
    /\ ci' = ci + 1
    /\ IF PR_SQUASH_REGEX(commits[ci]) # NoMatch
       THEN /\ pull_request_number' = PR_SQUASH_REGEX(commits[ci])
            /\ gen_resume' = "L146"
            /\ pc' = "L161"
       ELSE /\ pc' = "L146"
            /\ UNCHANGED <<gen_resume, pull_request_number>>
    /\ UNCHANGED <<exc, histVars, kwVars, mainVars, genVars, gfdVars, total,
                   count, commits, fetched, stgVars>>

\* Lines 161-164: the pull request is fetched, its created_at parsed and
\* its age accumulated; the next() of line 160 then resumes the generator.
PrFetch(maxPrTime) ==
    /\ pc = "L161"
    /\ \/ \E t \in 0 .. maxPrTime :
            LET r == Github_api(200, [created_at |-> t])
            IN  /\ r.raise = "none"
                /\ response' = Response("github", 200, r.value)
                /\ fetched' = Append(fetched,
                                     [number |-> pull_request_number,
                                      created_at |-> t])
                /\ \/ /\ total' = total + Elapsed(deploy_end_time,
                                                  r.value.created_at)
                      /\ count' = count + 1
                      /\ pc' = gen_resume
                      /\ exc' = exc
                   \/ /\ pc' = "L211" /\ exc' = [kind |-> "ValueError"]
                      /\ UNCHANGED <<total, count>>
                /\ UNCHANGED <<requested, kwVars, mainVars, genVars, gfdVars,
                               commits, ci, gen_resume, pull_request_number,
                               stgVars>>
       \/ GithubFails

\* Lines 166-169 and the assignment of line 201.
PrReturn ==
    /\ pc = "L166"
    /\ pr_production_cycle_time' = Mean(total, count)
    /\ pc' = "L173"
    /\ UNCHANGED <<exc, histVars, kwVars, header, rows,
                   first_production_deploy, deploy_end_time,
                   staging_production_cycle_time, genVars, gfdVars, prVars,
                   stgVars>>

\* Lines 202 and 173: staging_production_time calls
\* get_first_deploy(git_sha, False).  The frame of pr_production_time is
\* gone.
CallFirstStaging ==
    /\ pc = "L173"
    /\ git_sha' = commit /\ production' = FALSE /\ caller' = "staging"
    /\ total' = 0 /\ count' = 0 /\ commits' = <<>> /\ ci' = 0
    /\ gen_resume' = "none" /\ pull_request_number' = 0 /\ fetched' = <<>>
    /\ pc' = "L75"
    /\ UNCHANGED <<exc, histVars, kwVars, mainVars, genVars, gfd_deploys,
                   gfd_page, first_deploy, received, stgVars>>

\* Lines 174-178 and the assignment of line 202; the updated_at of a
\* staging deploy is parsed.
StagingReturn ==
    /\ pc = "L174"
    /\ \/ /\ staging_production_cycle_time' =
                 StagingElapsed(deploy_end_time, first_staging_deploy)
          /\ pc' = "L204"
          /\ UNCHANGED <<exc, histVars, kwVars, header, rows,
                         first_production_deploy, deploy_end_time,
                         pr_production_cycle_time, genVars, gfdVars, prVars,
                         stgVars>>
       \/ /\ first_staging_deploy # None
          /\ ParseFails

\* Line 204: the row is written.
WriteRow ==
    /\ pc = "L204"
    /\ rows' = Append(rows, Row(first_production_deploy, commit,
                                pr_production_cycle_time,
                                staging_production_cycle_time))
    /\ pc' = "L205"
    /\ UNCHANGED <<exc, histVars, kwVars, header, first_production_deploy,
                   deploy_end_time, pr_production_cycle_time,
                   staging_production_cycle_time, genVars, gfdVars, prVars,
                   stgVars>>

\* Lines 205 and 198: the next() of the for loop resumes the generator
\* after its yield, at the for loop of line 90.  The locals of the loop
\* body are dead until the next triple binds them.
Resume ==
    /\ pc = "L205"
    /\ first_production_deploy' = None
    /\ deploy_end_time' = 0
    /\ pr_production_cycle_time' = Zero
    /\ staging_production_cycle_time' = 0
    /\ first_staging_deploy' = None
    /\ received' = NoReceived
    /\ requested' = [requested EXCEPT !.range = <<>>, !.staging = <<>>]
    /\ pc' = "L90"
    /\ UNCHANGED <<exc, response, kwVars, header, rows, genVars, git_sha,
                   production, gfd_deploys, gfd_page, first_deploy, caller,
                   prVars>>

\* Lines 207-209: the loop has ended.
Done ==
    /\ pc = "L207"
    /\ pc' = "done"
    /\ UNCHANGED <<exc, histVars, kwVars, mainVars, genVars, gfdVars, prVars,
                   stgVars>>

----------------------------------------------------------------------------
(* The run of the script.                                                  *)

Next ==
    \/ GetProject
    \/ FeedFirst
    \/ WhileDeploys
    \/ ForDeploy
    \/ CheckFromDate
    \/ WhileToDate
    \/ CheckCache
    \/ CallFirstProduction
    \/ GfdFirst(MainSearchPages, MainSearchLen, MainSearchDate)
    \/ GfdWhile(MainSearchPages, MainSearchLen, MainSearchDate)
    \/ GfdReturn
    \/ Yield
    \/ ParseEndTime
    \/ Compare(MainMsgs, MainMsgKinds)
    \/ GenTestA
    \/ GenTestB
    \/ PrFetch(MainPrTime)
    \/ PrReturn
    \/ CallFirstStaging
    \/ StagingReturn
    \/ WriteRow
    \/ Resume
    \/ NextPage
    \/ Done

Spec == Init /\ [][Next]_vars

----------------------------------------------------------------------------
(* The two cycle times on their own, each from the states in which main    *)
(* reaches it, with wider bounds on what the two APIs answer.              *)

\* The generator has yielded the triple of deploy d and main holds fpd as
\* its first production deploy.
Yielded(d, fpd) ==
    /\ exc = NoExc
    /\ from_date = 1 /\ to_date = MaxDate - 1
    /\ header = HeaderRow /\ rows = <<>>
    /\ deploy = d
    /\ deploys = <<d>> /\ page = 1 /\ idx = 1
    /\ commit_cache = {d.commit}
    /\ first_production_deploy = fpd
    /\ received =
           [range |-> IF fpd = None THEN << <<>> >> ELSE << <<fpd>>, <<>> >>,
            staging |-> <<>>]
    /\ requested =
           [feed |-> <<1>>,
            range |-> IF fpd = None THEN <<1>> ELSE <<1, 2>>,
            staging |-> <<>>]
    /\ pr_production_cycle_time = Zero
    /\ staging_production_cycle_time = 0
    /\ BlankGfd
    /\ BlankPr
    /\ first_staging_deploy = None

\* The deploys of the feed that yield a triple when they come first.
Qualifying ==
    {d \in FeedDeploys :
        /\ ~ BeforeFromDate(d.created_at, 1)
        /\ ~ AfterToDate(d.created_at, MaxDate - 1)
        /\ ~ SkipCommit({}, d.commit, d.previous_commit)}

\* Line 199 is reached with a triple.
InitPr ==
    /\ pc = "L199"
    /\ \E d \in Qualifying :
         \E fpd \in {None} \cup SearchDeploys(d.commit, TRUE, CalcSearchDate) :
            Yielded(d, fpd)
    /\ deploy_end_time = 0
    /\ ci = 0
    /\ response = Response("samson", 200, [deploys |-> <<>>])

NextPr ==
    \/ ParseEndTime
    \/ Compare(CalcMsgs, CalcMsgKinds)
    \/ GenTestA
    \/ GenTestB
    \/ PrFetch(CalcPrTime)
    \/ PrReturn

SpecPr == InitPr /\ [][NextPr]_vars

\* Line 202 is reached after pr_production_time found no commit.  Of the
\* deploy, staging_production_time reads the commit alone, so the deploy is
\* one made at from_date.
InitStaging ==
    /\ pc = "L173"
    /\ \E d \in {q \in Qualifying : q.created_at = 1} :
         \E fpd \in SearchDeploys(d.commit, TRUE, CalcSearchDate) :
            /\ Yielded(d, fpd)
            /\ deploy_end_time = DeployEndTime(fpd)
    /\ ci = 1
    /\ response = Response("github", 200, [commits |-> <<>>])

NextStaging ==
    \/ CallFirstStaging
    \/ GfdFirst(CalcSearchPages, CalcSearchLen, CalcSearchDate)
    \/ GfdWhile(CalcSearchPages, CalcSearchLen, CalcSearchDate)
    \/ GfdReturn
    \/ StagingReturn
    \/ WriteRow

SpecStaging == InitStaging /\ [][NextStaging]_vars

\* One walk of get_first_deploy: the walk reads git_sha and production
\* alone, so one commit and one first production deploy stand for all.
InitWalk ==
    /\ InitStaging
    /\ commit = "a"
    /\ first_production_deploy.created_at = 0

\* The interpreter runs the one thread of the script as long as it has a
\* next step.
SpecWalkFair == InitWalk /\ [][NextStaging]_vars /\ WF_vars(NextStaging)

----------------------------------------------------------------------------
(* Notions the properties are stated with.                                 *)

\* The lines at which a yielded triple is being produced or processed.
PairLocs == {"L104", "L75", "L78", "L83", "L105", "L199", "L144", "L146",
             "L152", "L161", "L166", "L173", "L174", "L204", "L205"}

\* The loop body of main has the deploy end time and has not yet written
\* the row: lines 201-204, the staging walk of get_first_deploy included.
InCalc ==
    \/ pc \in {"L144", "L146", "L152", "L161", "L166", "L173", "L174", "L204"}
    \/ pc \in {"L75", "L78", "L83"} /\ caller = "staging"

InRange(d) == from_date <= d.created_at /\ d.created_at <= to_date

HasChange(d) == d.previous_commit # "" /\ d.previous_commit # d.commit

\* The last element of the last non-empty page of a finished walk: the
\* pages before the final, empty one.
LastOfLastPage(h) == IF Len(h) < 2 THEN None ELSE Last(h[Len(h) - 1])

RECURSIVE Flatten(_)
Flatten(h) == IF h = <<>> THEN <<>> ELSE Head(h) \o Flatten(Tail(h))

\* The list l served one deploy a page.
Singly(l) == [i \in 1 .. Len(l) |-> <<l[i]>>]

Descending(l) ==
    \A i \in 1 .. Len(l) - 1 : l[i].created_at >= l[i + 1].created_at

RECURSIVE SumAges(_, _)
SumAges(f, end) ==
    IF f = <<>> THEN 0 ELSE (end - Head(f).created_at) + SumAges(Tail(f), end)

----------------------------------------------------------------------------
(* The properties.                                                         *)

\* C1: no commit appears in more than one row written by one run.
C1_Dedup ==
    \A i, j \in 1 .. Len(rows) : i # j => rows[i].commit # rows[j].commit

\* A deploy of a commit that already has its row is examined at line 101.
C1_Witness ==
    /\ pc = "L101"
    /\ HasChange(deploy)
    /\ \E i \in 1 .. Len(rows) : rows[i].commit = commit

\* C2: a deploy outside [from_date, to_date] is the only deploy skipped on
\* its account: when the walk leaves a page, every deploy of the page that
\* is within the bounds and has a non-empty previous_commit different from
\* its commit has its commit in the dedup set (it yielded a pair, or an
\* earlier deploy of the commit did).
C2_OnlyThatDeploySkipped ==
    pc = "L108" =>
        \A i \in 1 .. Len(deploys) :
            InRange(deploys[i]) /\ HasChange(deploys[i])
                => deploys[i].commit \in commit_cache

\* C3: the walk ends once the tracker returns an empty page.  The feed of
\* the model has an empty page by page MaxPages + 1 and every step but the
\* re-test of line 98 moves the program on, so the walk ends exactly if a
\* run that has not ended can always take a step that changes its state.
C3_WalkTerminates ==
    pc \in {"done", "L211"} \/ ENABLED <<Next>>_vars

\* C4 as stated: the row's deploy id and the deploy end time are the id and
\* updated_at of the feed deploy that qualified.
C4_BoundToFeedDeploy ==
    pc = "L205" =>
        /\ rows[Len(rows)].id = deploy.id
        /\ deploy_end_time = deploy.updated_at

\* C4 as amended: the row's deploy id and the deploy end time used by both
\* cycle times are the id and updated_at of the deploy that
\* get_first_deploy(commit) returned for the qualifying commit (the last
\* element of the last non-empty page of the production search by that
\* commit); the row's commit is the qualifying deploy's; and every yielded
\* triple has at most one row, exactly one once the loop body has written
\* it.
C4_BoundToFirstProductionDeploy ==
    /\ InCalc \/ pc = "L205" =>
           deploy_end_time = LastOfLastPage(received.range).updated_at
    /\ pc = "L205" =>
           /\ rows[Len(rows)].id = LastOfLastPage(received.range).id
           /\ rows[Len(rows)].commit = deploy.commit
    /\ Len(rows) <= Cardinality(commit_cache)
    /\ Cardinality(commit_cache) <= Len(rows) + 1
    /\ InCalc \/ pc = "L199" => Len(rows) + 1 = Cardinality(commit_cache)
    /\ ~ InCalc /\ pc \notin {"L199", "L211"} =>
           Len(rows) = Cardinality(commit_cache)

\* A row whose deploy id is not the id of the feed deploy that qualified.
C4_Witness ==
    /\ pc = "L205"
    /\ rows[Len(rows)].id # deploy.id
    /\ deploy_end_time # deploy.updated_at

\* C5: while the deploy the walk stands at has an empty previous_commit, or
\* one equal to its commit, no step inserts into the dedup set and no step
\* writes a row.
C5_SkipRule ==
    [][(deploy # None /\ ~ HasChange(deploy))
          => (commit_cache' = commit_cache /\ rows' = rows)]_vars

\* Such a deploy, of a commit not in the dedup set, stands at line 101.
C5_Witness ==
    /\ pc = "L101"
    /\ ~ HasChange(deploy)
    /\ commit \notin commit_cache

\* C6: a triple is produced and processed only for a deploy created within
\* [from_date, to_date].
C6_InRange ==
    pc \in PairLocs => InRange(deploy)

\* A deploy created outside the range has been examined.
C6_Witness ==
    /\ pc \in {"L98", "L108"}
    /\ deploy # None
    /\ ~ InRange(deploy)

\* C7: a finished walk of get_first_deploy has asked for the pages up to
\* the first empty one and returns the last element of the last non-empty
\* page, none exactly when page 1 is empty; when the pages are in
\* descending created_at order no deploy of them is older.
C7_LastOfLastNonEmptyPage ==
    pc = "L83" =>
        LET h == received[caller]
        IN  /\ Len(h) >= 1
            /\ h[Len(h)] = <<>>
            /\ \A i \in 1 .. Len(h) - 1 : h[i] # <<>>
            /\ first_deploy = LastOfLastPage(h)
            /\ (first_deploy = None) <=> (h[1] = <<>>)
            /\ Descending(Flatten(h)) =>
                   \A i \in 1 .. Len(Flatten(h)) :
                       first_deploy.created_at <= Flatten(h)[i].created_at

\* A walk over two non-empty pages, the second with two different deploys.
C7_Witness ==
    /\ pc = "L83"
    /\ Len(received[caller]) = 3
    /\ Len(received[caller][2]) = 2
    /\ received[caller][2][1] # received[caller][2][2]

\* C8: whatever the pages a walk received its list in, it returns the
\* deploy lines 74-83 return for the same list served as one page and for
\* the same list served one deploy a page, each followed by an empty page;
\* the walks of the specification receive every list in every cut of it
\* that the bounds admit.
C8_SplitIndependent ==
    pc = "L83" /\ Flatten(received[caller]) # <<>> =>
        /\ get_first_deploy(<<Flatten(received[caller]), <<>> >>) = first_deploy
        /\ get_first_deploy(Append(Singly(Flatten(received[caller])), <<>>))
               = first_deploy

\* A walk that received three deploys, not all the same.
C8_Witness ==
    /\ pc = "L83"
    /\ Len(Flatten(received[caller])) >= 3
    /\ Flatten(received[caller])[1] # Flatten(received[caller])[3]

\* C9: pr_production_time fetches the yielded numbers one by one, once per
\* occurrence, and returns the sum of deploy_end_time - created_at over
\* them divided by their count, negative terms included, and 0 for none.
C9_Mean ==
    pc = "L173" =>
        LET ns == get_pull_requests_number(commits)
        IN  /\ [i \in 1 .. Len(fetched) |-> fetched[i].number] = ns
            /\ pr_production_cycle_time =
                   IF Len(ns) = 0 THEN Zero
                   ELSE [num |-> SumAges(fetched, deploy_end_time),
                         den |-> Len(ns)]

\* A mean over a number fetched twice and a pull request created after the
\* deploy ended.
C9_Witness ==
    /\ pc = "L173"
    /\ \E i, j \in 1 .. Len(fetched) :
           i # j /\ fetched[i].number = fetched[j].number
    /\ \E i \in 1 .. Len(fetched) : fetched[i].created_at > deploy_end_time

\* C10: staging_production_time returns 0 when the staging search found no
\* deploy (its page 1 was empty), and otherwise deploy_end_time minus the
\* updated_at of the deploy get_first_deploy returned.
C10_StagingFallback ==
    pc = "L204" =>
        /\ (first_staging_deploy = None) <=> (received.staging[1] = <<>>)
        /\ staging_production_cycle_time =
               IF first_staging_deploy = None THEN 0
               ELSE deploy_end_time - first_staging_deploy.updated_at

\* A staging deploy was found and the difference is not 0.
C10_Witness ==
    /\ pc = "L204"
    /\ first_staging_deploy # None
    /\ staging_production_cycle_time # 0

----------------------------------------------------------------------------
(* Error handling.                                                         *)

\* The classification table: the class of a response, "none" for no error.
\* A body without a message has no message that starts with the words.
Classified(api, status_code, json_output) ==
    IF api = "samson" /\ status_code = 401 THEN "UnauthorizedException"
    ELSE IF /\ api = "github" /\ status_code = 403
            /\ HasMessage(json_output) /\ IsRateLimit(json_output)
    THEN "RateLimitExceededException"
    ELSE IF status_code >= 400 THEN "UnexpectedException"
    ELSE "none"

\* What is raised for the last response agrees with the table.
AsClassified ==
    LET class == Classified(response.api, response.status, response.payload)
    IN  /\ class # "none" =>
               /\ pc = "L211"
               /\ exc = [raise |-> class, status |-> response.status,
                         data |-> response.payload]
        /\ class = "none" =>
               /\ "raise" \notin DOMAIN exc
               /\ pc = "L89" => deploys = response.payload.deploys
               /\ pc = "L78" => gfd_deploys = response.payload.deploys
               /\ pc = "L146" /\ ci = 1 =>
                      commits = response.payload.commits

\* C11: after every response of either API, what the program raised is the
\* class the table gives the response, with the status and the body of the
\* response in it, and a response below 400 raised no classified error and
\* its body is what the caller holds.
C11_ClassifiedByTable ==
    response # NoResponse => AsClassified

\* C11, for the responses other than a 403 of the source host whose body
\* has no "message": those are classified by the table.
C11_ClassifiedWithMessage ==
    /\ response # NoResponse
    /\ ~ (/\ response.api = "github" /\ response.status = 403
          /\ ~ HasMessage(response.payload))
    => AsClassified

\* The rows written for commit c.
RowsOf(c) == {i \in 1 .. Len(rows) : rows[i].commit = c}

\* C12: the step that raises an exception writes no row and leads to line
\* 211; raised while a qualifying deploy is processed, it leaves no row of
\* that deploy's commit; and no step is taken once an exception is raised,
\* so no row is written or changed and no call is made after it.
C12_ErrorAborts ==
    [][/\ exc = NoExc
       /\ exc' # NoExc =>
              /\ pc' = "L211"
              /\ rows' = rows
              /\ pc \in PairLocs => RowsOf(commit) = {}]_vars

\* A classified error raised in the staging search of the second qualifying
\* deploy, after the row of the first.
C12_Witness ==
    /\ pc = "L211"
    /\ "raise" \in DOMAIN exc
    /\ caller = "staging"
    /\ Len(rows) = 1
    /\ rows[1].commit # commit

----------------------------------------------------------------------------
(* The pull requests of a deploy.                                          *)

\* Pattern A: the message begins with "Merge pull request #<N>".
PatternA(m) ==
    IF Len(m) >= 2 /\ m[1].k = "merge" /\ m[2].k = "num"
    THEN <<m[2].n>> ELSE <<>>

\* Pattern B: the message matches "...(#<N>)", "..." being the text before
\* it on the first line and N the number of the last such group.
PatternB(m) ==
    LET groups == {i \in 1 .. Len(m) - 2 :
                      /\ m[i].k = "open" /\ m[i + 1].k = "num"
                      /\ m[i + 2].k = "close"
                      /\ \A j \in 1 .. i : m[j].k # "nl"}
    IN  IF groups = {} THEN <<>>
        ELSE <<m[(CHOOSE i \in groups : \A j \in groups : j <= i) + 1].n>>

\* The numbers of the pull requests fetched so far, in order.
Yields == [i \in 1 .. Len(fetched) |-> fetched[i].number]

\* C13: when the generator of get_pull_requests_number is exhausted, the
\* numbers it yielded are, commit by commit in the order of the compare
\* response, the number of pattern A if the message matches it and then
\* the number of pattern B if the message matches it; no number at all
\* when no message matches.
C13_YieldsInOrder ==
    pc = "L166" =>
        /\ Yields = Flatten([i \in 1 .. Len(commits) |->
                                PatternA(commits[i]) \o PatternB(commits[i])])
        /\ (\A i \in 1 .. Len(commits) :
                PatternA(commits[i]) = <<>> /\ PatternB(commits[i]) = <<>>)
               => Yields = <<>>

\* A squash commit followed by a commit that matches both patterns with
\* two different numbers: three numbers are yielded.
C13_Witness ==
    /\ pc = "L166"
    /\ commits = <<SquashMsg(2), BothMsg(1, 2)>>
    /\ Yields = <<2, 1, 2>>

----------------------------------------------------------------------------
(* The order of processing.                                                *)

\* The place of the production feed the program has come to.
Advances == page' # page \/ idx' # idx

\* No call of the loop body of main is under way or left to make.
BodyIdle ==
    /\ caller = "none"
    /\ commits = <<>> /\ fetched = <<>>
    /\ first_staging_deploy = None
    /\ received = NoReceived

\* C14: the place in the feed only moves forward, page by page and deploy
\* by deploy; a row is appended for the deploy at the current place, the
\* one yielded pair that had no row yet; and when the program moves on to
\* the next deploy or asks for the next page of the feed, every pair
\* yielded so far has its row and no call made for it is still to return.
C14_Sequential ==
    [][/\ page' > page \/ (page' = page /\ idx' >= idx)
       /\ rows' # rows =>
              /\ ~ Advances
              /\ Len(rows') = Len(rows) + 1
              /\ SubSeq(rows', 1, Len(rows)) = rows
              /\ rows'[Len(rows')].commit = deploys[idx].commit
              /\ Len(rows') = Cardinality(commit_cache)
       /\ Advances =>
              /\ Len(rows) = Cardinality(commit_cache)
              /\ BodyIdle]_vars

\* The second row is written for a deploy of page 2, the first was written
\* for a deploy of page 1.
C14_Witness ==
    /\ pc = "L205"
    /\ page = 2
    /\ Len(rows) = 2
    /\ rows[2].commit = commit
    /\ \A i \in 1 .. Len(deploys) : deploys[i].commit # rows[1].commit

----------------------------------------------------------------------------
(* The pagination walks.                                                   *)

\* C15: a walk of get_first_deploy returns only with an empty page as the
\* last page it received; from a non-empty page its one step is to ask for
\* the next page, whatever the page number, and from an empty page its one
\* step is to return; a walk under way comes to its return or to an error
\* of a call, the tracker coming to an empty page or to an error.
C15_TerminatesIffEmptyPage ==
    /\ [](pc = "L83" => Last(received[caller]) = <<>>)
    /\ [][(pc = "L78") =>
              IF gfd_deploys # <<>>
              THEN \/ pc' = "L211"
                   \/ pc' = "L78" /\ gfd_page' = gfd_page + 1
              ELSE pc' = "L83"]_vars
    /\ (pc \in {"L75", "L78"}) ~> (pc \in {"L83", "L211"})

\* The walk asks for a third page after two non-empty ones.
C15_Witness ==
    /\ pc = "L78"
    /\ gfd_page = 3
    /\ Len(received[caller]) = 3
    /\ received[caller][1] # <<>> /\ received[caller][2] # <<>>

----------------------------------------------------------------------------
(* The dedup set.                                                          *)

\* The commits of the rows written so far.
RowCommits == {rows[i].commit : i \in 1 .. Len(rows)}

\* The step yields a pair: line 106 hands a triple to the loop of line 198.
YieldsPair == pc # "L199" /\ pc' = "L199"

\* C16: commit_cache only grows, and by one commit at a time: the commit
\* of the current deploy, at the step that yields its pair, when that
\* deploy is in the date range and not skipped by the skip rule and its
\* commit was not in the set; every step that yields a pair adds its
\* commit; so the set is the set of the commits yielded so far, no step
\* that skips a deploy adds to it, and it holds the commit of every row and
\* at most one commit more, the one of the pair being processed.
C16_DedupSet ==
    /\ [](/\ RowCommits \subseteq commit_cache
          /\ Cardinality(commit_cache) - Len(rows) \in {0, 1})
    /\ [][/\ commit_cache \subseteq commit_cache'
          /\ YieldsPair => commit_cache' # commit_cache
          /\ commit_cache' # commit_cache =>
                 /\ YieldsPair
                 /\ commit_cache' = commit_cache \cup {commit}
                 /\ commit \notin commit_cache
                 /\ InRange(deploy) /\ HasChange(deploy)]_vars

\* A deploy was skipped by the skip rule and the next deploy of the page,
\* of the same commit, has yielded a pair.
C16_Witness ==
    /\ pc = "L199"
    /\ idx = 2
    /\ deploys[1].commit = commit
    /\ InRange(deploys[1])
    /\ ~ HasChange(deploys[1])
    /\ commit_cache = {commit}

\* The walks: the one of the production feed and the two of
\* get_first_deploy.
Walks == {"feed", "range", "staging"}

\* The page the walk w received last is not empty.
LastPageNonEmpty(w) ==
    IF w = "feed" THEN deploys # <<>> ELSE gfd_deploys # <<>>

\* C17: the page numbers a walk has asked for are 1, 2, 3, ... in order;
\* a walk asks for a further page only after a non-empty page, so never
\* after its first empty page; and no step taken inside get_first_deploy
\* changes the page counter, the requests or the dedup set of the feed
\* walk around it.
C17_PagesInOrder ==
    /\ [](\A w \in Walks :
              requested[w] = [i \in 1 .. Len(requested[w]) |-> i])
    /\ [][\A w \in Walks :
              requested'[w] # requested[w] =>
                  \/ requested'[w] = <<>>
                  \/ /\ requested'[w] =
                            Append(requested[w], Len(requested[w]) + 1)
                     /\ requested[w] # <<>> => LastPageNonEmpty(w)]_vars
    /\ [][(pc \in {"L75", "L78", "L83"}) =>
              /\ page' = page
              /\ commit_cache' = commit_cache
              /\ requested'.feed = requested.feed]_vars

\* A walk of get_first_deploy over two pages, made for a deploy of page 2
\* of the feed.
C17_Witness ==
    /\ pc = "L83"
    /\ caller = "range"
    /\ requested.range = <<1, 2>>
    /\ requested.feed = <<1, 2>>
    /\ page = 2

----------------------------------------------------------------------------
(* A commit without a production deploy.                                   *)

TypeError == [kind |-> "TypeError"]

\* C18: the lookup of line 104 gives None exactly when page 1 of the search
\* by the commit was empty; line 199 then raises TypeError, the step writes
\* no row and leads to line 211, and no step follows it; so a row is
\* written only with a deploy, and the rows written before stay.
C18_NoneAborts ==
    /\ [](pc = "L199" =>
              (first_production_deploy = None <=> received.range[1] = <<>>))
    /\ [](pc = "L204" => first_production_deploy # None)
    /\ [][/\ exc # TypeError
          /\ pc = "L199" /\ first_production_deploy = None =>
                 /\ exc' = TypeError
                 /\ pc' = "L211"
                 /\ rows' = rows
                 /\ RowsOf(commit) = {}]_vars

\* The lookup for the second qualifying commit gave None, after the row of
\* the first.
C18_Witness ==
    /\ pc = "L211"
    /\ exc = TypeError
    /\ first_production_deploy = None
    /\ Len(rows) = 1

====
